---- MODULE Spec2Model ----
\* Feed ingestion and fallback pipeline of Opposition AI Kenya:
\* fetch_feed and analyze_government_news (src/agents/opposition_agent.py)
\* and the /analyze endpoint (src/app.py).
EXTENDS Integers, Sequences, FiniteSets, TLC

\* ------------------------------------------------------------------ bounds
\* Number of feed URLs in the model's feed list (the code lists 8).
NumFeeds == 4
\* Number of entries of the longest parsed feed.
MaxEntries == 20
\* Number of calls of analyze_government_news in one run.
MaxCalls == 2

\* ------------------------------------------------------- program constants
\* fetch_feed(url, retries=3, ...)
retries == 3
\* feed.entries[:5]
PerSourceLimit == 5
\* articles[:15]
TotalLimit == 15

VARIABLES
    pc,         \* position of the control thread
    call,       \* number of calls of analyze_government_news started
    net,        \* the world, per feed met so far: -1 (unreachable) or its entry count
    i,          \* index in feeds of the url being processed
    attempt,    \* fetch_feed's loop variable
    articles,   \* analyze_government_news' local list
    cache,      \* the file cache/news_cache.json
    analyses,   \* analyze_government_news' local list of results
    response,   \* what the caller got back from the last call
    nAttempts,  \* requests.get calls made in this call of analyze_government_news
    nSleeps,    \* time.sleep calls made in the current fetch_feed
    lastGet,    \* url of the latest requests.get and whether it gave status 200
    aiLog,      \* outcome of generate_content for each article analysed so far
    reads,      \* cache file reads in this call
    writes,     \* cache file writes in this call
    found,      \* the cache file as this call found it, if it looked
    saved       \* per finished call, the feeds' answers and the file it left

vars == <<pc, call, net, i, attempt, articles, cache, analyses, response,
          nAttempts, nSleeps, lastGet, aiLog, reads, writes, found, saved>>

\* What fetch_feed's retry loop alone touches.
retryVars == <<attempt, nAttempts, nSleeps, lastGet>>

Feeds == 1..NumFeeds

\* The numbers of entries a parsed feed may hold: none (an empty or
\* malformed document), fewer than the per-feed cut, exactly as many, more.
EntryCounts == {0, 1, 3, PerSourceLimit, MaxEntries}

\* ------------------------------------------------------------ data values
\* Text values are tuples, so that any two of them can be compared.
Untitled == <<"Untitled">>
NoLink == <<"No link">>
NoSummary == <<"No summary available.">>

\* dict.get(key, default)
Get(d, key, default) == IF key \in DOMAIN d THEN d[key] ELSE default

\* The k-th entry of feed s as feedparser hands it over. Entry 1 is a
\* syndicated story every feed carries unchanged; entries 2..5 each lack
\* some of the fields; later entries are complete.
Entry(s, k) ==
    CASE k = 1 -> [title |-> <<"title", 0, 1>>, link |-> <<"link", 0, 1>>,
                   summary |-> <<"summary", 0, 1>>]
      [] k = 2 -> [link |-> <<"link", s, k>>, summary |-> <<"summary", s, k>>]
      [] k = 3 -> [title |-> <<"title", s, k>>, link |-> <<"link", s, k>>,
                   description |-> <<"description", s, k>>]
      [] k = 4 -> [title |-> <<"title", s, k>>, link |-> <<"link", s, k>>]
      [] k = 5 -> [title |-> <<"title", s, k>>, summary |-> <<"summary", s, k>>,
                   description |-> <<"description", s, k>>]
      [] OTHER -> [title |-> <<"title", s, k>>, link |-> <<"link", s, k>>,
                   summary |-> <<"summary", s, k>>]

\* fetch_feed's return values: None, or the parsed feed with n entries.
NoneFeed == [isNone |-> TRUE, entries |-> <<>>]
ParsedFeed(s, n) == [isNone |-> FALSE, entries |-> [k \in 1..n |-> Entry(s, k)]]

\* The dict built from one entry.
ToArticle(entry) ==
    [title |-> Get(entry, "title", Untitled),
     link |-> Get(entry, "link", NoLink),
     summary |-> Get(entry, "summary", Get(entry, "description", NoSummary))]

\* seq[:n]
Take(seq, n) == SubSeq(seq, 1, IF Len(seq) < n THEN Len(seq) ELSE n)

\* Variant: the per-feed cut is left out (feed.entries in place of
\* feed.entries[:5]).
FeedArticles_NoCut(feed) ==
    IF ~feed.isNone /\ feed.entries # <<>>
    THEN [k \in 1..Len(feed.entries) |-> ToArticle(feed.entries[k])]
    ELSE <<>>

\* The articles one fetched feed adds: nothing for None or an empty feed,
\* else its first PerSourceLimit entries in feed order.
FeedArticles(feed) ==
    IF ~feed.isNone /\ feed.entries # <<>>
    THEN [k \in 1..Len(Take(feed.entries, PerSourceLimit)) |-> ToArticle(feed.entries[k])]
    ELSE <<>>

\* articles[:15]
Truncated(seq) == Take(seq, TotalLimit)

Placeholder ==
    [title |-> <<"Government launches new affordable housing project">>,
     link |-> <<"https://example.com/fallback">>,
     summary |-> <<"The Kenyan government has announced a new affordable housing project">>]

\* ------------------------------------------------------------- cache file
AbsentFile == [exists |-> FALSE, valid |-> FALSE, data |-> <<>>]
CorruptFile == [exists |-> TRUE, valid |-> FALSE, data |-> <<>>]
\* A file holding the JSON array of a batch.
Dumped(batch) == [exists |-> TRUE, valid |-> TRUE, data |-> batch]

\* Variant: the cut to TotalLimit is applied after the cache read.
Loaded_Cut(file) == Truncated(file.data)

\* json.load(f) of a readable file: the array it holds, whole.
Loaded(file) == file.data

\* Variant: the file is opened in append mode, new articles after old.
Written_Append(file, batch) == Dumped(file.data \o batch)

\* open(NEWS_CACHE_FILE, "w") and json.dump(articles, f): mode "w" empties
\* whatever the file held.
Written(file, batch) == Dumped(batch)

\* Variant: the emptiness test is left out of the fallback.
OrPlaceholder_Never(batch) == batch

\* Variant: the fallback article is added whether or not the batch is empty.
OrPlaceholder_Always(batch) == Append(batch, Placeholder)

\* if not articles: articles = [the fallback article]
OrPlaceholder(batch) == IF batch = <<>> THEN <<Placeholder>> ELSE batch

\* An article of an earlier run, found in the cache file at start.
Old(k) == [title |-> <<"title", 99, k>>, link |-> <<"link", 99, k>>,
           summary |-> <<"summary", 99, k>>]
OldBatch(n) == [k \in 1..n |-> Old(k)]

\* What an earlier run or an editor may have left on disk.
InitialCaches ==
    {AbsentFile, CorruptFile, Dumped(<<>>), Dumped(OldBatch(4)),
     Dumped(OldBatch(TotalLimit + 1)), Dumped(<<Placeholder>>)}

\* The file before this run has looked at it: its content is one of
\* InitialCaches, settled the first time the program touches the file.
UnseenFile == [exists |-> FALSE, valid |-> FALSE, data |-> <<>>, unseen |-> TRUE]
OnDisk(file) == IF file = UnseenFile THEN InitialCaches ELSE {file}

\* ---------------------------------------------------------- requests.get
\* Status 200, another status, an SSLError, any other exception (a timeout,
\* a refused connection).
GetOutcomes == {"200", "http", "ssl", "error"}
NoGet == [url |-> 0, status |-> "none"]

\* ------------------------------------------------------- analysis results
AiOutcomes == {"text", "empty", "error"}

\* The dict appended to analyses for one article.
AnalysisItem(art, outcome) ==
    [title |-> art.title,
     analysis |-> CASE outcome = "text" -> <<"analysis of", art.title>>
                    [] outcome = "empty" -> <<"No analysis generated.">>
                    [] OTHER -> <<"AI generation error">>,
     source |-> art.link]

\* Variant: the except block appends nothing.
Collected_DropErrors(list, art, outcome) ==
    IF outcome = "error" THEN list ELSE Append(list, AnalysisItem(art, outcome))

\* analyses.append(...), in the try block or in the except block.
Collected(list, art, outcome) == Append(list, AnalysisItem(art, outcome))

\* ------------------------------------------------------------------ state
Init ==
    /\ pc = "idle"
    /\ call = 0
    /\ net = <<>>
    /\ i = 1
    /\ attempt = 0
    /\ articles = <<>>
    /\ cache = UnseenFile
    /\ analyses = <<>>
    /\ response = "none"
    /\ nAttempts = 0
    /\ nSleeps = 0
    /\ lastGet = NoGet
    /\ aiLog = <<>>
    /\ reads = 0
    /\ writes = 0
    /\ found = AbsentFile
    /\ saved = <<>>

\* Entry into analyze_government_news: articles = [], first url.
Enter ==
    /\ pc' = "fetch"
    /\ call' = call + 1
    /\ i' = 1
    /\ attempt' = 0
    /\ articles' = <<>>
    /\ analyses' = <<>>
    /\ response' = "none"
    /\ nAttempts' = 0
    /\ nSleeps' = 0
    /\ lastGet' = NoGet
    /\ aiLog' = <<>>
    /\ reads' = 0
    /\ writes' = 0
    /\ found' = AbsentFile
    /\ UNCHANGED <<cache, saved>>

\* analyze_government_news is called (main.py:18, app.py:22).
Call ==
    /\ pc \in {"idle", "done", "crashed"}
    /\ call < MaxCalls
    /\ Enter
    /\ UNCHANGED net

\* A later call made after every feed has become unreachable.
CallInOutage ==
    /\ pc \in {"done", "crashed"}
    /\ call < MaxCalls
    /\ net # [s \in Feeds |-> -1]
    /\ Enter
    /\ net' = [s \in Feeds |-> -1]

\* What the world answers for feed s: -1 (unreachable) or an entry count;
\* a feed already met answers as it did before.
NetChoices(s) == IF s > Len(net) THEN {-1} \cup EntryCounts ELSE {net[s]}

\* The loop body after fetch_feed returned `feed`: append its articles, next url.
TakeFeed(feed) ==
    /\ articles' = articles \o FeedArticles(feed)
    /\ i' = i + 1

\* One iteration of "for url in feeds", with fetch_feed run to its return:
\* None for an unreachable feed, else the parsed feed.
FetchFeedCall ==
    /\ pc = "fetch"
    /\ i <= NumFeeds
    /\ \E n \in NetChoices(i) :
         /\ net' = IF i > Len(net) THEN Append(net, n) ELSE net
         /\ TakeFeed(IF n = -1 THEN NoneFeed ELSE ParsedFeed(i, n))
    /\ UNCHANGED <<pc, call, cache, analyses, response, aiLog,
                   reads, writes, found, saved, retryVars>>

\* articles = articles[:15]
Truncate ==
    /\ pc = "fetch"
    /\ i > NumFeeds
    /\ articles' = Truncated(articles)
    /\ pc' = "load"
    /\ UNCHANGED <<call, net, i, cache, analyses, response, aiLog,
                   reads, writes, found, saved, retryVars>>

\* if not articles and NEWS_CACHE_FILE.exists(): articles = json.load(f)
\* json.load raises on a corrupt file and nothing in the function catches it.
LoadCache ==
    /\ pc = "load"
    /\ IF articles = <<>>
       THEN \E file \in OnDisk(cache) :
              /\ cache' = file
              /\ found' = file
              /\ IF file.exists
                 THEN /\ reads' = reads + 1
                      /\ IF file.valid
                         THEN articles' = Loaded(file) /\ pc' = "fallback"
                         ELSE articles' = articles /\ pc' = "raised"
                 ELSE /\ pc' = "fallback"
                      /\ UNCHANGED <<articles, reads>>
       ELSE /\ pc' = "fallback"
            /\ UNCHANGED <<articles, cache, reads, found>>
    /\ UNCHANGED <<call, net, i, analyses, response, aiLog,
                   writes, saved, retryVars>>

\* Variant: the fallback is an elif of the cache test, skipped when a cache
\* file exists.
Fallback_Elif ==
    /\ pc = "fallback"
    /\ articles' = IF cache.exists THEN articles ELSE OrPlaceholder(articles)
    /\ pc' = "save"
    /\ UNCHANGED <<call, net, i, cache, analyses, response, aiLog,
                   reads, writes, found, saved, retryVars>>

\* if not articles: articles = [the fallback article]
Fallback ==
    /\ pc = "fallback"
    /\ articles' = OrPlaceholder(articles)
    /\ pc' = "save"
    /\ UNCHANGED <<call, net, i, cache, analyses, response, aiLog,
                   reads, writes, found, saved, retryVars>>

\* with open(NEWS_CACHE_FILE, "w"): json.dump(articles, f)
SaveCache ==
    /\ pc = "save"
    /\ cache' = Written(cache, articles)
    /\ writes' = writes + 1
    /\ pc' = "analyze"
    /\ UNCHANGED <<call, net, i, articles, analyses, response, aiLog,
                   reads, found, saved, retryVars>>

\* return {"status": "success", ..., "analyses": analyses}
Return ==
    /\ response' = "success"
    /\ saved' = Append(saved, [net |-> net, file |-> cache])
    /\ pc' = "done"

\* The analysis loop and the return, with the AI service in one condition
\* for the whole batch.
AnalyzeAll ==
    /\ pc = "analyze"
    /\ \E outcome \in AiOutcomes :
         /\ analyses' = [k \in 1..Len(articles) |-> AnalysisItem(articles[k], outcome)]
         /\ aiLog' = [k \in 1..Len(articles) |-> outcome]
    /\ Return
    /\ UNCHANGED <<call, net, i, articles, cache, reads, writes, found, retryVars>>

\* analyze_news' except branch: it reads the cache file again, outside any
\* try, so a corrupt file raises out of the endpoint; main.py has no handler.
AnalyzeNewsExcept ==
    /\ pc = "raised"
    /\ IF cache.exists
       THEN IF cache.valid
            THEN response' = "warning" /\ pc' = "done"
            ELSE response' = "unhandled" /\ pc' = "crashed"
       ELSE response' = "error" /\ pc' = "done"
    /\ saved' = Append(saved, [net |-> net, file |-> cache])
    /\ UNCHANGED <<call, net, i, articles, cache, analyses, aiLog,
                   reads, writes, found, retryVars>>

\* The rest of analyze_government_news after the feed loop, up to the save.
Settle ==
    \/ Truncate
    \/ LoadCache
    \/ Fallback
    \/ SaveCache

Next ==
    \/ Call
    \/ CallInOutage
    \/ FetchFeedCall
    \/ Settle
    \/ AnalyzeAll
    \/ AnalyzeNewsExcept

Spec == Init /\ [][Next]_vars

\* ------------------------------------------------- what the feeds offered
Min(a, b) == IF a < b THEN a ELSE b

\* The number of articles feed s is due to contribute, given its answer.
Due(s) == IF net[s] < 0 THEN 0 ELSE Min(PerSourceLimit, net[s])

\* The articles due from the feeds before s, and from all feeds.
RECURSIVE DueBefore(_)
DueBefore(s) == IF s <= 1 THEN 0 ELSE DueBefore(s - 1) + Due(s - 1)
DueTotal == DueBefore(NumFeeds + 1)

\* The feed loop of the current call is over and the batch is settled.
Settled == pc \in {"analyze", "done"} /\ Len(net) = NumFeeds
EveryFeedFailed == Len(net) = NumFeeds /\ \A s \in Feeds : net[s] = -1

\* The batch the live answers call for: per feed its first Due(s) entries,
\* feeds in list order, cut at TotalLimit.
LiveDue ==
    [p \in 1..Min(TotalLimit, DueTotal) |->
        LET s == CHOOSE t \in Feeds : DueBefore(t) < p /\ p <= DueBefore(t) + Due(t)
        IN  ToArticle(Entry(s, p - DueBefore(s)))]

\* C1: the batch handed to the analysis step is never empty: it is the live
\* batch, else the cached batch, else the single placeholder article.
C1_BatchNeverEmpty ==
    Settled =>
        /\ articles # <<>>
        /\ articles = IF DueTotal > 0 THEN LiveDue
                      ELSE IF found.exists /\ found.valid /\ found.data # <<>>
                           THEN found.data
                           ELSE <<Placeholder>>

\* Each of the three layers is reached: here the last one, over an empty
\* cached list and feeds that are empty or unreachable, not all the same.
C1_Witness ==
    /\ Settled
    /\ DueTotal = 0
    /\ \E s, t \in Feeds : net[s] = -1 /\ net[t] = 0
    /\ found = Dumped(<<>>)
    /\ articles = <<Placeholder>>

\* C2: with at least one entry offered, the batch has
\* min(TotalLimit, sum of min(PerSourceLimit, entries)) articles: each feed's
\* first entries in feed order, feeds in list order, cut from the end,
\* duplicates across feeds kept.
C2_LiveBatchShape ==
    (Settled /\ DueTotal > 0) =>
        /\ Len(articles) = Min(TotalLimit, DueTotal)
        /\ \A s \in Feeds : \A k \in 1..Due(s) :
              DueBefore(s) + k <= TotalLimit =>
                  articles[DueBefore(s) + k] = ToArticle(Entry(s, k))

\* Both cuts bite and a story carried by two feeds appears twice.
C2_Witness ==
    /\ Settled
    /\ DueTotal > TotalLimit
    /\ \E s \in Feeds : net[s] > PerSourceLimit
    /\ \E p, q \in 1..Len(articles) : p < q /\ articles[p] = articles[q]

\* C3: every feed fails and a non-empty cache record exists: the batch is
\* exactly the cached one, whole and in order, with nothing added.
C3_CachedBatchUnchanged ==
    (Settled /\ EveryFeedFailed /\ found.exists /\ found.valid /\ found.data # <<>>) =>
        articles = found.data

\* The record read was written by the previous call of the same run.
C3_Witness ==
    /\ Settled
    /\ EveryFeedFailed
    /\ call = 2
    /\ Len(saved) = 1
    /\ found = saved[1].file
    /\ Len(found.data) > 1
    /\ articles = found.data

\* C4: every feed fails and there is no cache record, or it holds an empty
\* batch: the batch is the placeholder article alone.
C4_PlaceholderAlone ==
    (Settled /\ EveryFeedFailed /\ (~found.exists \/ (found.valid /\ found.data = <<>>))) =>
        articles = <<Placeholder>>

C4_Witness ==
    /\ Settled
    /\ EveryFeedFailed
    /\ reads = 0
    /\ ~found.exists
    /\ articles = <<Placeholder>>

\* C5: no failure escapes the aggregation: with every feed failing and a
\* corrupt cache record the call still completes normally.
C5_NothingEscapes ==
    pc \notin {"raised", "crashed"} /\ response # "unhandled"

\* C7, order: the cache file is read before it is written, and written once.
C7_ReadThenOneWrite ==
    [][/\ reads' > reads => writes = 0
       /\ writes' > writes => writes = 0 /\ pc' = "analyze"]_vars

\* C7, content: when a call returns, the file holds exactly its batch.
C7_CacheIsBatch ==
    (pc = "done" /\ response = "success") =>
        (cache = Dumped(articles) /\ writes = 1)

\* C7: at each return the persisted record is exactly the returned batch,
\* live or fallback; the save replaces the record, once per call, after any
\* read of it.
C7_CacheReflectsLastBatch == []C7_CacheIsBatch /\ C7_ReadThenOneWrite

\* A second call's live batch, cut to TotalLimit, replaces the record the
\* first call wrote, without a read.
C7_Witness ==
    /\ pc = "done"
    /\ call = 2
    /\ Len(saved) = 2
    /\ saved[1].file.data # <<>>
    /\ DueTotal > TotalLimit
    /\ reads = 0
    /\ writes = 1
    /\ cache = Dumped(articles)

\* C8: two calls in a row over the same live answers leave the same cache
\* content, whatever the file held before the first.
C8_CacheIdempotent ==
    \A k \in 2..Len(saved) :
        saved[k].net = saved[k - 1].net => saved[k].file = saved[k - 1].file

\* Two calls fell back on the record an earlier run had left.
C8_Witness ==
    /\ Len(saved) = 2
    /\ saved[2].net = saved[1].net
    /\ pc = "done"
    /\ reads = 1
    /\ Len(articles) > TotalLimit

\* ------------------------------------------- fetch_feed attempt by attempt
\* One call of analyze_government_news in which fetch_feed is followed
\* through its retry loop, the world answering each request anew.
CallOnce ==
    /\ pc = "idle"
    /\ Enter
    /\ UNCHANGED net

\* Variant: one attempt too many.
InRange_Inclusive(a) == a <= retries

\* for attempt in range(retries): whether a is a value of the range.
InRange(a) == a < retries

\* feed = fetch_feed(url): entry into the retry loop.
EnterFetchFeed ==
    /\ pc = "fetch"
    /\ i <= NumFeeds
    /\ pc' = "get"
    /\ attempt' = 0
    /\ nSleeps' = 0
    /\ UNCHANGED <<call, net, i, articles, cache, analyses, response, aiLog,
                   reads, writes, found, saved, nAttempts, lastGet>>

\* One pass of the try block: requests.get and what follows it. Status 200
\* returns the parsed feed to the caller, which takes its entries; any other
\* outcome is printed and falls through to the sleep. feedparser.parse
\* takes a malformed document without raising and hands back no entries.
Request ==
    /\ pc = "get"
    /\ nAttempts' = nAttempts + 1
    /\ \E r \in GetOutcomes :
         /\ lastGet' = [url |-> i, status |-> IF r = "200" THEN "200" ELSE "failed"]
         /\ IF r = "200"
            THEN /\ \E n \in EntryCounts : TakeFeed(ParsedFeed(i, n))
                 /\ pc' = "fetch"
            ELSE /\ pc' = "sleep"
                 /\ UNCHANGED <<i, articles>>
    /\ UNCHANGED <<call, net, cache, analyses, response, aiLog,
                   reads, writes, found, saved, attempt, nSleeps>>

\* time.sleep(delay), the last statement of the loop body, then the next
\* value of range(retries) if there is one.
Sleep ==
    /\ pc = "sleep"
    /\ nSleeps' = nSleeps + 1
    /\ attempt' = attempt + 1
    /\ pc' = IF InRange(attempt + 1) THEN "get" ELSE "exhausted"
    /\ UNCHANGED <<call, net, i, articles, cache, analyses, response, aiLog,
                   reads, writes, found, saved, nAttempts, lastGet>>

\* After the loop: print the failure, return None; the caller skips the url.
GiveUp ==
    /\ pc = "exhausted"
    /\ TakeFeed(NoneFeed)
    /\ pc' = "fetch"
    /\ UNCHANGED <<call, net, cache, analyses, response, aiLog,
                   reads, writes, found, saved, retryVars>>

NextFetch ==
    \/ CallOnce
    \/ EnterFetchFeed
    \/ Request
    \/ Sleep
    \/ GiveUp
    \/ Settle
    \/ AnalyzeAll
    \/ AnalyzeNewsExcept

\* The code is one synchronous thread: requests.get has a timeout and
\* time.sleep returns, so a step that can be taken is taken.
SpecFetch == Init /\ [][NextFetch]_vars /\ WF_vars(NextFetch)

\* C6: when every attempt for a url fails, fetch_feed makes exactly retries
\* attempts and returns None, and it waits only between two attempts:
\* retries - 1 waits, none after the final attempt.
C6_WaitsBetweenAttempts ==
    pc = "exhausted" => (attempt = retries /\ nSleeps = retries - 1)

\* Position inside the feed loop of a call.
InFeedLoop == pc \in {"fetch", "get", "sleep", "exhausted"}

\* C10, sequential processing: the loop moves only to the next url, and
\* only once the current one answered 200 or used up its retries attempts.
C10_OneAtATime ==
    [][i' # i => /\ i' = i + 1
                 /\ \/ lastGet' = [url |-> i, status |-> "200"]
                    \/ attempt = retries /\ lastGet = [url |-> i, status |-> "failed"]]_vars

\* C10: every request is for the current url, and never for a url that
\* already answered 200.
C10_NoRefetch ==
    [][nAttempts' # nAttempts =>
          /\ nAttempts' = nAttempts + 1
          /\ lastGet'.url = i
          /\ lastGet.url <= i
          /\ ~(lastGet.url = i /\ lastGet.status = "200")]_vars

\* C10: once the feed loop is over, between one attempt per url and
\* retries attempts per url were made.
C10_AttemptCount ==
    (call > 0 /\ ~InFeedLoop) =>
        (NumFeeds <= nAttempts /\ nAttempts <= NumFeeds * retries)

\* C10: every call terminates, its urls are attempted strictly one at a time
\* in list order, none again after its first status 200, and the attempts
\* of a call number between len(feeds) and len(feeds) * retries.
C10_SequentialAndTerminates ==
    /\ <>(pc \in {"done", "crashed"})
    /\ C10_OneAtATime
    /\ C10_NoRefetch
    /\ []C10_AttemptCount

\* A finished call in which some attempts failed and were retried, others
\* not, and the last url answered 200.
C10_Witness ==
    /\ pc = "done"
    /\ NumFeeds < nAttempts /\ nAttempts < NumFeeds * retries
    /\ lastGet.status = "200"

\* ------------------------------------------ the analysis loop per article
\* Longest batch handed to the analysis loop in SpecAnalyze.
MaxBatch == 3

ArticlePool == {Placeholder, ToArticle(Entry(1, 1)), ToArticle(Entry(2, 2))}
Batches == UNION {[1..n -> ArticlePool] : n \in 1..MaxBatch}

\* The state at "analyses = []": the batch is settled and saved.
InitAnalyze ==
    /\ pc = "analyze"
    /\ call = 1
    /\ net = <<>>
    /\ i = NumFeeds + 1
    /\ attempt = 0
    /\ articles \in Batches
    /\ cache = Dumped(articles)
    /\ analyses = <<>>
    /\ response = "none"
    /\ nAttempts = 0
    /\ nSleeps = 0
    /\ lastGet = NoGet
    /\ aiLog = <<>>
    /\ reads = 0
    /\ writes = 1
    /\ found = AbsentFile
    /\ saved = <<>>

\* One iteration of "for art in articles": generate_content returns text,
\* returns no text, or raises; each way one dict is appended.
Generate ==
    /\ pc = "analyze"
    /\ Len(aiLog) < Len(articles)
    /\ \E outcome \in AiOutcomes :
         /\ analyses' = Collected(analyses, articles[Len(aiLog) + 1], outcome)
         /\ aiLog' = Append(aiLog, outcome)
    /\ UNCHANGED <<pc, call, net, i, articles, cache, response,
                   reads, writes, found, saved, retryVars>>

\* The loop is over: return the dict.
AnalyzeReturn ==
    /\ pc = "analyze"
    /\ Len(aiLog) >= Len(articles)
    /\ Return
    /\ UNCHANGED <<call, net, i, articles, cache, analyses, aiLog,
                   reads, writes, found, retryVars>>

NextAnalyze ==
    \/ Generate
    \/ AnalyzeReturn

SpecAnalyze == InitAnalyze /\ [][NextAnalyze]_vars

\* C9: the call returns "success" with one item per article, in batch
\* order, carrying the article's title and link; an article whose analysis
\* raised gets an error item and the others are analysed all the same.
C9_OneItemPerArticle ==
    pc = "done" =>
        /\ response = "success"
        /\ Len(analyses) = Len(articles)
        /\ \A k \in 1..Len(articles) :
              /\ analyses[k].title = articles[k].title
              /\ analyses[k].source = articles[k].link
              /\ (aiLog[k] = "error") = (analyses[k].analysis = <<"AI generation error">>)
              /\ (aiLog[k] = "empty") = (analyses[k].analysis = <<"No analysis generated.">>)

\* The first article's analysis raised, a later one's succeeded.
C9_Witness ==
    /\ pc = "done"
    /\ Len(articles) = MaxBatch
    /\ aiLog[1] = "error"
    /\ aiLog[2] = "empty"
    /\ aiLog[MaxBatch] = "text"
    /\ Len(analyses) = MaxBatch
====
